---------------------------- MODULE Spec2Model ----------------------------
(***************************************************************************)
(* Model of the Decawave positioning / control sources:                    *)
(*   - TDOA      (src/unnamed/part_000): the EKF estimator over            *)
(*                Eigen::MatrixXf / VectorXf, i.e. IEEE-754 binary32.       *)
(*   - MPC::Solve / FG_eval (cyphy_car_mpc2/src/MPC.cpp): assembly of the   *)
(*                nonlinear program handed to CppAD::ipopt::solve.          *)
(*   - waypoint  (cyphy_car/src/waypoint.cpp): the drive loop on            *)
(*                gps_thread and the callbacks run by ros::spin.            *)
(*                                                                         *)
(* A binary32 value is the pair <<m, e>> standing for m * 2^e, with         *)
(* |m| < 2^24, normalised (2^23 <= |m|) unless subnormal (e = EMin), zero   *)
(* being <<0, 0>>.  Exponent ESpecial marks +Inf (<<1, ESpecial>>), -Inf    *)
(* (<<-1, ESpecial>>) and NaN (<<0, ESpecial>>).  Arithmetic rounds to      *)
(* nearest, ties to even, as the hardware does for `float`.  The sign of    *)
(* zero is not represented.                                                *)
(***************************************************************************)
EXTENDS Integers, Sequences, FiniteSets, TLC

(***************************************************************************)
(* binary32 arithmetic (the `float` scalar of Eigen::MatrixXf)             *)
(***************************************************************************)
MantBits == 24
EMin == -149
EMax == 104
ESpecial == 105

Zero == <<0, 0>>
NaN == <<0, ESpecial>>
PInf == <<1, ESpecial>>
NInf == <<-1, ESpecial>>

Abs(n) == IF n < 0 THEN -n ELSE n
Sgn(n) == IF n < 0 THEN -1 ELSE IF n > 0 THEN 1 ELSE 0
Max2(a, b) == IF a >= b THEN a ELSE b

IsSpecial(a) == a[2] = ESpecial
IsNaN(a) == a = NaN
IsInf(a) == IsSpecial(a) /\ a[1] # 0
IsFinite(a) == ~IsSpecial(a)
IsZero(a) == a = Zero

\* Number of significant bits of M, 0 <= M < 2^30.
BitLen(M) ==
    IF M < 32768
    THEN IF M < 128
         THEN IF M < 8
              THEN IF M < 2 THEN M ELSE IF M < 4 THEN 2 ELSE 3
              ELSE IF M < 32 THEN (IF M < 16 THEN 4 ELSE 5)
                             ELSE (IF M < 64 THEN 6 ELSE 7)
         ELSE IF M < 2048
              THEN IF M < 512 THEN (IF M < 256 THEN 8 ELSE 9)
                              ELSE (IF M < 1024 THEN 10 ELSE 11)
              ELSE IF M < 8192 THEN (IF M < 4096 THEN 12 ELSE 13)
                               ELSE (IF M < 16384 THEN 14 ELSE 15)
    ELSE IF M < 8388608
         THEN IF M < 524288
              THEN IF M < 131072 THEN (IF M < 65536 THEN 16 ELSE 17)
                                 ELSE (IF M < 262144 THEN 18 ELSE 19)
              ELSE IF M < 2097152 THEN (IF M < 1048576 THEN 20 ELSE 21)
                                  ELSE (IF M < 4194304 THEN 22 ELSE 23)
         ELSE IF M < 134217728
              THEN IF M < 33554432 THEN (IF M < 16777216 THEN 24 ELSE 25)
                                   ELSE (IF M < 67108864 THEN 26 ELSE 27)
              ELSE IF M < 536870912 THEN (IF M < 268435456 THEN 28 ELSE 29)
                                    ELSE 30

\* v bound once to the parameter of F: the value of F(v), with v evaluated a
\* single time however often F uses its parameter.
Let1(v, F(_)) == CHOOSE y \in {F(x) : x \in {v}} : TRUE

\* sgn * m * 2^e as a binary32, m already rounded to at most 24 bits
Pack(sgn, m, e) ==
    IF m = 0 THEN Zero
    ELSE IF e > EMax THEN <<sgn, ESpecial>>
    ELSE <<sgn * m, e>>

\* 1 when dropping the low sh bits of M rounds upwards (nearest, ties to even)
RoundUp(M, sh) ==
    Let1(M % 2^sh, LAMBDA r :
        IF r > 2^(sh - 1) \/ (r = 2^(sh - 1) /\ (M \div 2^sh) % 2 = 1)
        THEN 1 ELSE 0)

\* M has L significant bits, of which the low sh are dropped
RoundAt(sgn, M, e, L, sh) ==
    IF sh <= 0 THEN <<sgn * M * 2^(-sh), e + sh>>
    ELSE IF sh >= L + 2 THEN Zero
    ELSE Let1((M \div 2^sh) + RoundUp(M, sh), LAMBDA m :
             IF m = 2^MantBits
             THEN Pack(sgn, 2^(MantBits - 1), e + sh + 1)
             ELSE Pack(sgn, m, e + sh))

\* The binary32 nearest to sgn * M * 2^e (ties to even).  M < 2^30; when the
\* lowest bit of M stands for discarded non-zero bits (a sticky bit), M has
\* at least 26 significant bits, so that bit never reaches the result.
RoundPack(sgn, M0, e) ==
    Let1(M0, LAMBDA M :
        IF M = 0 THEN Zero
        ELSE Let1(BitLen(M), LAMBDA L :
             Let1(Max2(L - MantBits, EMin - e), LAMBDA sh :
                 RoundAt(sgn, M, e, L, sh))))

\* top with its lowest bit set when non-zero bits were discarded below it
Jam(top, sticky) == IF sticky /\ top % 2 = 0 THEN top + 1 ELSE top

\* A finite non-zero value with its mantissa brought to 24 bits (the exponent
\* may then lie below EMin; only used inside Mul and Div).
Norm24(a) ==
    Let1(MantBits - BitLen(Abs(a[1])), LAMBDA k : <<a[1] * 2^k, a[2] - k>>)

Neg(a) == <<-a[1], a[2]>>

\* x has the larger (or equal) exponent; both finite and non-zero
AddFinite(x, y) ==
    IF x[2] - y[2] >= 27 THEN x
    ELSE Let1(x[1] * 8 + Sgn(y[1]) *
                  Jam((Abs(y[1]) * 8) \div 2^(x[2] - y[2]),
                      ((Abs(y[1]) * 8) % 2^(x[2] - y[2])) # 0),
              LAMBDA s : RoundPack(Sgn(s), Abs(s), x[2] - 3))

AddV(a, b) ==
    IF IsSpecial(a) \/ IsSpecial(b)
    THEN IF IsNaN(a) \/ IsNaN(b) THEN NaN
         ELSE IF IsInf(a) /\ IsInf(b) THEN (IF a = b THEN a ELSE NaN)
         ELSE IF IsInf(a) THEN a ELSE b
    ELSE IF IsZero(a) THEN b
    ELSE IF IsZero(b) THEN a
    ELSE IF a[2] >= b[2] THEN AddFinite(a, b) ELSE AddFinite(b, a)

\* a + b
Add(a0, b0) == Let1(a0, LAMBDA a : Let1(b0, LAMBDA b : AddV(a, b)))

\* a - b
Sub(a, b) == Add(a, Neg(b))

\* sgn * xa * yb * 2^(e - 21) for 24-bit xa, yb: the 48-bit product is formed
\* from 12-bit halves, its top bits kept with a sticky bit
MulM(sgn, xa, yb, e) ==
    Let1((xa \div 4096) * (yb % 4096) + (xa % 4096) * (yb \div 4096), LAMBDA mid :
    Let1((mid % 4096) * 4096 + (xa % 4096) * (yb % 4096), LAMBDA low :
    Let1((xa \div 4096) * (yb \div 4096) + (mid \div 4096) + (low \div 16777216),
         LAMBDA high :
             RoundPack(sgn,
                       Jam(high * 8 + ((low % 16777216) \div 2097152),
                           (low % 2097152) # 0),
                       e))))

MulV(a, b) ==
    IF IsSpecial(a) \/ IsSpecial(b)
    THEN IF IsNaN(a) \/ IsNaN(b) \/ IsZero(a) \/ IsZero(b) THEN NaN
         ELSE <<Sgn(a[1]) * Sgn(b[1]), ESpecial>>
    ELSE IF IsZero(a) \/ IsZero(b) THEN Zero
    ELSE Let1(Norm24(a), LAMBDA x : Let1(Norm24(b), LAMBDA y :
             MulM(Sgn(a[1]) * Sgn(b[1]), Abs(x[1]), Abs(y[1]), x[2] + y[2] + 21)))

\* a * b
Mul(a0, b0) == Let1(a0, LAMBDA a : Let1(b0, LAMBDA b : MulV(a, b)))

\* sgn * (n / dv) * 2^(e + 26) for 24-bit n, dv: long division in 6-bit
\* steps, the quotient kept to 27 bits with a sticky bit
DivM(sgn, n, dv, e) ==
    Let1(n % dv, LAMBDA r0 :
    Let1((r0 * 64) % dv, LAMBDA r1 :
    Let1((r1 * 64) % dv, LAMBDA r2 :
    Let1((r2 * 64) % dv, LAMBDA r3 :
    Let1((r3 * 64) % dv, LAMBDA r4 :
        RoundPack(sgn,
                  Jam((((((n \div dv) * 64 + ((r0 * 64) \div dv)) * 64
                          + ((r1 * 64) \div dv)) * 64
                          + ((r2 * 64) \div dv)) * 64
                          + ((r3 * 64) \div dv)) * 4
                          + ((r4 * 4) \div dv),
                      ((r4 * 4) % dv) # 0),
                  e))))))

DivV(a, b) ==
    IF IsSpecial(a) \/ IsSpecial(b)
    THEN IF IsNaN(a) \/ IsNaN(b) \/ (IsInf(a) /\ IsInf(b)) THEN NaN
         ELSE IF IsInf(a)
              THEN <<Sgn(a[1]) * (IF b[1] < 0 THEN -1 ELSE 1), ESpecial>>
              ELSE Zero
    ELSE IF IsZero(b) THEN (IF IsZero(a) THEN NaN ELSE <<Sgn(a[1]), ESpecial>>)
    ELSE IF IsZero(a) THEN Zero
    ELSE Let1(Norm24(a), LAMBDA x : Let1(Norm24(b), LAMBDA y :
             DivM(Sgn(a[1]) * Sgn(b[1]), Abs(x[1]), Abs(y[1]), x[2] - y[2] - 26)))

\* a / b
Div(a0, b0) == Let1(a0, LAMBDA a : Let1(b0, LAMBDA b : DivV(a, b)))

\* a < b, a <= b on binary32 (false when either is NaN)
Lt(a, b) == ~IsNaN(a) /\ ~IsNaN(b) /\ a # b /\ Sub(a, b)[1] < 0
Le(a, b) == ~IsNaN(a) /\ ~IsNaN(b) /\ (a = b \/ Lt(a, b))


\* int -> float conversion of a small integer literal (exact below 2^24)
FromInt(n) == RoundPack(Sgn(n), Abs(n), 0)
\* The float nearest to the decimal literal n / 10^d (n, 10^d < 2^24)
Dec(n, d) == Div(FromInt(n), FromInt(10^d))
\* powf(x, 2)
Powf2(x) == Mul(x, x)

(***************************************************************************)
(* tdoa.h (not among the sources): dimensions and state indices            *)
(***************************************************************************)
STATE_DIM == 6
STATE_X == 0
STATE_Y == 1
STATE_Z == 2
STATE_VX == 3
STATE_VY == 4
STATE_VZ == 5
MAX_NR_ANCHORS == 4

(***************************************************************************)
(* Eigen dense matrices: m[i][j], 0-based, with run-time dimensions.       *)
(* Products accumulate their terms in index order, one rounding per        *)
(* multiplication and per addition.                                        *)
(***************************************************************************)
RECURSIVE Build(_, _)
\* <<Coeff(0), ..., Coeff(n - 1)>>, every coefficient evaluated once
Build(Coeff(_), n) ==
    IF n = 0 THEN << >> ELSE Append(Build(Coeff, n - 1), Coeff(n - 1))

Rows(m) == Len(m)
Cols(m) == Len(m[1])
\* m(i, j) and v(i), 0-based as in the source
At(m, i, j) == m[i + 1][j + 1]
El(v, i) == v[i + 1]
Vec(n, Coeff(_)) == Build(Coeff, n)
Mat(r, c, Coeff(_, _)) == Build(LAMBDA i : Build(LAMBDA j : Coeff(i, j), c), r)
Identity(n) == Mat(n, n, LAMBDA i, j : IF i = j THEN FromInt(1) ELSE Zero)
SetZero(r, c) == Mat(r, c, LAMBDA i, j : Zero)
Transpose(m) == Mat(Cols(m), Rows(m), LAMBDA i, j : At(m, j, i))

RECURSIVE DotAcc(_, _, _)
\* sum_{k <= n} x(k) * y(k), accumulated from k = 0
DotAcc(x, y, n) ==
    IF n = 0 THEN Mul(El(x, 0), El(y, 0))
    ELSE Add(DotAcc(x, y, n - 1), Mul(El(x, n), El(y, n)))
Dot(x, y) == DotAcc(x, y, Len(x) - 1)

MatMul(X0, Y0) ==
    Let1(X0, LAMBDA X : Let1(Transpose(Y0), LAMBDA Yt :
        Mat(Rows(X), Rows(Yt), LAMBDA i, j : Dot(X[i + 1], Yt[j + 1]))))
MatVec(X0, v0) ==
    Let1(X0, LAMBDA X : Let1(v0, LAMBDA v :
        Vec(Rows(X), LAMBDA i : Dot(X[i + 1], v))))

(***************************************************************************)
(* TDOA                                                                    *)
(***************************************************************************)
VARIABLES
    S,               \* state vector (VectorXf, STATE_DIM)
    P,               \* covariance (MatrixXf)
    A,               \* transition matrix (MatrixXf)
    anchorPosition,  \* vec3d_t anchorPosition[MAX_NR_ANCHORS]
    pastTable,       \* the storage right after anchorPosition[]: << >> while
                     \* untouched, <<pos>> once overwritten with pos
    stdDev,          \* measurement noise standard deviation
    nr_states,
    last,            \* the operation that produced this state, with its arguments
    onlyPredicted,   \* TRUE while A is the constructor's and P is the
                     \* constructor's covariance after predict calls alone
    nPredict, nUpdate, nSet, nAnc

tdoaVars == <<S, P, A, anchorPosition, pastTable, stdDev, nr_states, last,
              onlyPredicted, nPredict, nUpdate, nSet, nAnc>>

Vec3(x, y, z) == [x |-> x, y |-> y, z |-> z]

\* initAnchorPos(): only entries 0..3 are assigned
initAnchorPos(i) ==
    CASE i = 0 -> Vec3(Dec(4628, 3), Dec(600, 3), Dec(1312, 3))
      [] i = 1 -> Vec3(Dec(4628, 3), Dec(3810, 3), Dec(1297, 3))
      [] i = 2 -> Vec3(Dec(43, 3), Dec(4210, 3), Dec(1302, 3))
      [] i = 3 -> Vec3(Dec(123, 3), Dec(1673, 3), Dec(1903, 3))

\* P as the constructor leaves it
CtorP ==
    Mat(STATE_DIM, STATE_DIM, LAMBDA i, j :
        IF i # j THEN Zero
        ELSE IF i \in {STATE_X, STATE_Y} THEN Powf2(FromInt(100))
        ELSE IF i = STATE_Z THEN Powf2(FromInt(1))
        ELSE Powf2(Dec(1, 2)))

\* A contracting transition matrix: 0.5 on the diagonal instead of 1
CtorAHalf ==
    Mat(STATE_DIM, STATE_DIM, LAMBDA i, j :
        IF i = j THEN Dec(5, 1)
        ELSE IF <<i, j>> \in {<<STATE_X, STATE_VX>>, <<STATE_Y, STATE_VY>>,
                              <<STATE_Z, STATE_VZ>>}
             THEN Dec(16, 3)
             ELSE Zero)

\* A as the constructor leaves it
CtorA ==
    Mat(STATE_DIM, STATE_DIM, LAMBDA i, j :
        IF i = j THEN FromInt(1)
        ELSE IF <<i, j>> \in {<<STATE_X, STATE_VX>>, <<STATE_Y, STATE_VY>>,
                              <<STATE_Z, STATE_VZ>>}
             THEN Dec(16, 3)
             ELSE Zero)

CtorS ==
    Vec(STATE_DIM, LAMBDA i :
        IF i = STATE_X THEN FromInt(2)
        ELSE IF i = STATE_Y THEN Dec(26, 1)
        ELSE Zero)

(***************************************************************************)
(* Arguments the callers pass in this model                                *)
(***************************************************************************)
\* Upper bounds on the calls of one run
MaxPredict == 3
MaxUpdate == 1
MaxSet == 2
MaxAnc == 2

Ones(r, c) == Mat(r, c, LAMBDA i, j : FromInt(1))

\* A 6x6 matrix that is zero but for the entries listed in `entries`
Sparse6(entries) ==
    Mat(STATE_DIM, STATE_DIM, LAMBDA i, j :
        IF <<i, j>> \in DOMAIN entries THEN entries[<<i, j>>] ELSE Zero)

\* Transition matrices offered to setTransitionMat: one of the right size
\* (constant velocity with dt = 0.5) and two of a wrong size
TransitionArgs ==
    { Mat(STATE_DIM, STATE_DIM, LAMBDA i, j :
          IF i = j THEN FromInt(1)
          ELSE IF j = i + 3 THEN Dec(5, 1) ELSE Zero),
      Ones(STATE_DIM - 1, STATE_DIM),
      Ones(STATE_DIM, STATE_DIM + 1) }

\* 0.15f * 0.15f, the noise variance R of the scalar update
NoiseVar == Mul(Dec(15, 2), Dec(15, 2))

\* A symmetric covariance with one x/y correlation
CovXY ==
    Sparse6((<<0, 0>> :> Dec(15, 1)) @@ (<<0, 1>> :> Dec(25, 2)) @@
            (<<1, 0>> :> Dec(25, 2)) @@ (<<1, 1>> :> FromInt(10000)))

\* A "covariance" with negative variances: P[x,x] = -R, P[y,y] = -1
CovNeg ==
    Sparse6((<<0, 0>> :> Neg(NoiseVar)) @@ (<<1, 1>> :> FromInt(-1)))

PredictionArgs ==
    { CovXY, CovNeg, Ones(STATE_DIM - 1, STATE_DIM), Ones(STATE_DIM, STATE_DIM + 1) }

RowVec(hx, hy, hz) ==
    Vec(STATE_DIM, LAMBDA i :
        IF i = STATE_X THEN hx ELSE IF i = STATE_Y THEN hy
        ELSE IF i = STATE_Z THEN hz ELSE Zero)

\* Observation rows: the x axis alone, and a row mixing x and y
HArgs ==
    { RowVec(FromInt(1), Zero, Zero),
      RowVec(Neg(Div(FromInt(21), FromInt(64))), FromInt(2), Zero) }

ErrorArgs == { Zero, Dec(5, 1) }

AnchorIds == (-1)..(MAX_NR_ANCHORS + 1)
AnchorPosArgs ==
    { Vec3(FromInt(1), FromInt(2), FromInt(3)),
      Vec3(Dec(5, 1), Zero, FromInt(-1)) }

(***************************************************************************)
(* TDOA operations                                                         *)
(***************************************************************************)
TDOA_Init ==
    /\ S = CtorS
    /\ P = CtorP
    /\ A = CtorA
    /\ nr_states = STATE_DIM
    /\ anchorPosition \in
         [0..(MAX_NR_ANCHORS - 1) -> {initAnchorPos(i) : i \in 0..3}]
    /\ \A i \in 0..3 : anchorPosition[i] = initAnchorPos(i)
    /\ pastTable = << >>
    /\ stdDev = Dec(15, 2)
    /\ last = [op |-> "TDOA"]
    /\ onlyPredicted = TRUE
    /\ nPredict = 0 /\ nUpdate = 0 /\ nSet = 0 /\ nAnc = 0

\* a size test that rejects only when both dimensions are wrong
WrongSizeBoth(m, n) == (Rows(m) # n) /\ (Cols(m) # n)

\* the size test of setTransitionMat / setPredictionMat
WrongSize(m, n) == (Rows(m) # n) \/ (Cols(m) # n)

setTransitionMat(transition_mat) ==
    /\ nSet < MaxSet
    /\ nSet' = nSet + 1
    /\ last' = [op |-> "setTransitionMat", m |-> transition_mat,
                again |-> last = [op |-> "setTransitionMat", m |-> transition_mat,
                                  again |-> FALSE]]
    /\ A' = IF WrongSize(transition_mat, nr_states) THEN A ELSE transition_mat
    /\ onlyPredicted' = (onlyPredicted /\ WrongSize(transition_mat, nr_states))
    /\ UNCHANGED <<S, P, anchorPosition, pastTable, stdDev, nr_states,
                   nPredict, nUpdate, nAnc>>

setPredictionMat(prediction_mat) ==
    /\ nSet < MaxSet
    /\ nSet' = nSet + 1
    /\ last' = [op |-> "setPredictionMat", m |-> prediction_mat,
                again |-> last = [op |-> "setPredictionMat", m |-> prediction_mat,
                                  again |-> FALSE]]
    /\ P' = IF WrongSize(prediction_mat, nr_states) THEN P ELSE prediction_mat
    /\ onlyPredicted' = (onlyPredicted /\ WrongSize(prediction_mat, nr_states))
    /\ UNCHANGED <<S, A, anchorPosition, pastTable, stdDev, nr_states,
                   nPredict, nUpdate, nAnc>>

\* the index test of setAncPosition: TRUE when the call returns early
InvalidAnchor(anc_num) == (anc_num < 0) \/ (anc_num > MAX_NR_ANCHORS)

\* anchorPosition[anc_num] = anc_pos.  anc_num = MAX_NR_ANCHORS passes the
\* test and stores one element past the array: the store either lands in the
\* storage that follows the table or has no visible effect.
setAncPosition(anc_num, anc_pos) ==
    /\ nAnc < MaxAnc
    /\ nAnc' = nAnc + 1
    /\ last' = [op |-> "setAncPosition", anc_num |-> anc_num, anc_pos |-> anc_pos]
    /\ IF InvalidAnchor(anc_num)
       THEN UNCHANGED <<anchorPosition, pastTable>>
       ELSE IF anc_num \in DOMAIN anchorPosition
       THEN /\ anchorPosition' = [anchorPosition EXCEPT ![anc_num] = anc_pos]
            /\ UNCHANGED pastTable
       ELSE /\ UNCHANGED anchorPosition
            /\ pastTable' \in {<<anc_pos>>, pastTable}
    /\ UNCHANGED <<S, P, A, stdDev, nr_states, onlyPredicted, nPredict, nUpdate,
                   nSet>>

\* PHTm = P*H.transpose()
PHt(Pm, H) == MatVec(Pm, H)

\* HPHR = H*PHTm + R, R = stdMeasNoise*stdMeasNoise
InnovationVar(PHTm, H, stdMeasNoise) ==
    Add(Dot(H, PHTm), Mul(stdMeasNoise, stdMeasNoise))

\* K = PHTm / HPHR
KalmanGain(PHTm, HPHR) == Vec(STATE_DIM, LAMBDA i : Div(El(PHTm, i), HPHR))

\* S + K*error
UpdatedState(Sv, K, error) ==
    Vec(STATE_DIM, LAMBDA i : Add(El(Sv, i), Mul(El(K, i), error)))

\* (I + K*H)*P: the correction applied with the wrong sign
UpdatedCovPlus(Pm, K, H) ==
    Let1(Identity(STATE_DIM), LAMBDA I :
        MatMul(Mat(STATE_DIM, STATE_DIM,
                   LAMBDA i, j : Add(At(I, i, j), Mul(El(K, i), El(H, j)))),
               Pm))

\* (I - K*H)*P
UpdatedCov(Pm, K, H) ==
    Let1(Identity(STATE_DIM), LAMBDA I :
        MatMul(Mat(STATE_DIM, STATE_DIM,
                   LAMBDA i, j : Sub(At(I, i, j), Mul(El(K, i), El(H, j)))),
               Pm))

stateEstimatorScalarUpdate(H, error, stdMeasNoise) ==
    /\ nUpdate < MaxUpdate
    /\ nUpdate' = nUpdate + 1
    /\ \E PHTm \in {PHt(P, H)} :
       \E HPHR \in {InnovationVar(PHTm, H, stdMeasNoise)} :
       \E K \in {KalmanGain(PHTm, HPHR)} :
          /\ S' = UpdatedState(S, K, error)
          /\ P' = UpdatedCov(P, K, H)
          /\ last' = [op |-> "stateEstimatorScalarUpdate", H |-> H,
                      error |-> error, HPHR |-> HPHR, K |-> K, P0 |-> P]
    /\ onlyPredicted' = FALSE
    /\ UNCHANGED <<A, anchorPosition, pastTable, stdDev, nr_states, nPredict,
                   nSet, nAnc>>

\* A*P*A without the transpose
PredictedCovNoTranspose(Am, Pm) == MatMul(MatMul(Am, Pm), Am)

\* A*P*A'
PredictedCov(Am, Pm) == MatMul(MatMul(Am, Pm), Transpose(Am))

stateEstimatorPredict ==
    /\ nPredict < MaxPredict
    /\ nPredict' = nPredict + 1
    /\ last' = [op |-> "stateEstimatorPredict"]
    /\ P' = PredictedCov(A, P)
    /\ UNCHANGED <<S, A, anchorPosition, pastTable, stdDev, nr_states,
                   onlyPredicted, nUpdate, nSet, nAnc>>

\* the value getLocation() returns
getLocation == Vec3(El(S, STATE_X), El(S, STATE_Y), El(S, STATE_Z))

\* the operations on the filter: S, P and A
TDOA_Next ==
    \/ \E m \in TransitionArgs : setTransitionMat(m)
    \/ \E m \in PredictionArgs : setPredictionMat(m)
    \/ \E H \in HArgs, e \in ErrorArgs : stateEstimatorScalarUpdate(H, e, stdDev)
    \/ stateEstimatorPredict

\* the operations on the anchor table
Anchor_Next ==
    \E id \in AnchorIds, pos \in AnchorPosArgs : setAncPosition(id, pos)


(***************************************************************************)
(* MPC (cyphy_car_mpc2/src/MPC.cpp)                                        *)
(*                                                                         *)
(* A `double` the program stores and compares, but never computes with, is *)
(* the decimal literal it was written as: <<m, e>> stands for m * 10^e,    *)
(* with m not a multiple of 10 and zero written <<0, 0>>.                  *)
(***************************************************************************)
Dbl(m, e) == <<m, e>>
DNeg(a) == <<-a[1], a[2]>>

RECURSIVE Digits(_)
\* number of decimal digits of n >= 0
Digits(n) == IF n < 10 THEN 1 ELSE 1 + Digits(n \div 10)

\* a < b for a, b > 0: by decimal order of magnitude, then by digits
DLtPos(a, b) ==
    IF Digits(a[1]) + a[2] # Digits(b[1]) + b[2]
    THEN Digits(a[1]) + a[2] < Digits(b[1]) + b[2]
    ELSE IF a[2] >= b[2]
         THEN a[1] * 10^(a[2] - b[2]) < b[1]
         ELSE a[1] < b[1] * 10^(b[2] - a[2])

\* a < b, a <= b on doubles
DLt(a, b) ==
    IF Sgn(a[1]) # Sgn(b[1]) THEN Sgn(a[1]) < Sgn(b[1])
    ELSE IF a[1] = 0 THEN FALSE
    ELSE IF a[1] > 0 THEN DLtPos(a, b)
    ELSE DLtPos(DNeg(b), DNeg(a))
DLe(a, b) == ~DLt(b, a)

\* Set the timestep length and duration
N == 10

\* State and input hard constraints
dir_bound == Dbl(35, -2)
vel_bound == Dbl(3, 0)
\* the "infinity" of the state-variable bounds
Infinity == Dbl(1, 19)

\* a steering start one slot too far: the speed field counted as N long
delta_start_after_N == 5 * N + N

\* Offsets of the seven fields in the flat decision vector
x_start == 0
y_start == x_start + N
psi_start == y_start + N
cte_start == psi_start + N
epsi_start == cte_start + N
v_start == epsi_start + N
delta_start == v_start + N - 1

\* Set number of model variables / constraints
n_vars == N * 5 + (N - 1) * 2
n_constraints == N * 5

VARIABLES
    x_vals, y_vals,  \* MPC::x_vals, MPC::y_vals
    call             \* the last call of MPC::Solve: its arguments, the program
                     \* it handed to the solver, the solver's answer and the
                     \* value it returned

mpcVars == <<x_vals, y_vals, call>>

\* for (i = lo; i < hi; ++i) v[i] = val
Fill(v, lo, hi, val) ==
    [i \in DOMAIN v |-> IF lo <= i /\ i < hi THEN val ELSE v[i]]

\* Dvector v(n): n doubles nobody has assigned yet
Dvector(n) == [i \in 0..(n - 1) |-> "unassigned"]

\* v[x_start] = x; v[y_start] = y; v[psi_start] = psi; v[cte_start] = cte;
\* v[epsi_start] = epsi, with x = state[0], ..., epsi = state[4]
SetInitialState(v, state) ==
    [v EXCEPT ![x_start] = state[0], ![y_start] = state[1],
              ![psi_start] = state[2], ![cte_start] = state[3],
              ![epsi_start] = state[4]]

\* Initialize model variables to zero, then set the initial state
InitialVars(state) ==
    SetInitialState(Fill(Dvector(n_vars), 0, n_vars, Dbl(0, 0)), state)

\* the three bound loops run with the velocity loop first, so that the
\* "infinity" loop overwrites the velocity bounds
BoundsVelocityFirst(sign) ==
    Fill(Fill(Fill(Dvector(n_vars),
                   v_start, delta_start, <<sign * vel_bound[1], vel_bound[2]>>),
              0, delta_start, <<sign * Infinity[1], Infinity[2]>>),
         delta_start, n_vars, <<sign * dir_bound[1], dir_bound[2]>>)

\* vars_lowerbound (sign = -1) / vars_upperbound (sign = 1): the three loops
\* in the order of the source
VarBounds(sign) ==
    Fill(Fill(Fill(Dvector(n_vars),
                   0, delta_start, <<sign * Infinity[1], Infinity[2]>>),
              delta_start, n_vars, <<sign * dir_bound[1], dir_bound[2]>>),
         v_start, delta_start, <<sign * vel_bound[1], vel_bound[2]>>)
vars_lowerbound == VarBounds(-1)
vars_upperbound == VarBounds(1)

\* constraint bounds that stay 0 at the initial state
ConstraintBoundsAllZero(state) ==
    Fill(Dvector(n_constraints), 0, n_constraints, Dbl(0, 0))

\* constraints_lowerbound and constraints_upperbound: 0 except for the
\* initial states, which are constrained to the last measured value
ConstraintBounds(state) ==
    SetInitialState(Fill(Dvector(n_constraints), 0, n_constraints, Dbl(0, 0)),
                    state)
constraints_lowerbound(state) == ConstraintBounds(state)
constraints_upperbound(state) == ConstraintBounds(state)

(***************************************************************************)
(* FG_eval::operator(): the assignments to fg, in program order.  Each is  *)
(* recorded with the slot it writes, the kind of expression assigned and   *)
(* the indices of vars the expression reads.                               *)
(***************************************************************************)
Store(slot, expr, reads) == [slot |-> slot, expr |-> expr, reads |-> reads]

RECURSIVE Flatten(_)
Flatten(ss) == IF ss = << >> THEN << >> ELSE Head(ss) \o Flatten(Tail(ss))

\* for (t = from; t < to; ++t) Body(t), as the sequence of its stores
ForLoop(from, to, Body(_)) ==
    Flatten(Build(LAMBDA k : Body(from + k), Max2(to - from, 0)))

\* fg[0] = 0 and the three cost loops
CostStores ==
    <<Store(0, "zero", {})>>
    \o ForLoop(0, N, LAMBDA t :
           <<Store(0, "cost", {cte_start + t}), Store(0, "cost", {epsi_start + t})>>)
    \o ForLoop(0, N - 1, LAMBDA t :
           <<Store(0, "cost", {delta_start + t}), Store(0, "cost", {v_start + t})>>)
    \o ForLoop(0, N - 2, LAMBDA t :
           <<Store(0, "cost", {delta_start + t + 1, delta_start + t}),
             Store(0, "cost", {v_start + t + 1, v_start + t})>>)

\* Set the constraints at time t=0: fg[1 + f_start] = vars[f_start]
InitialStores ==
    <<Store(1 + x_start, "var", {x_start}),
      Store(1 + y_start, "var", {y_start}),
      Store(1 + psi_start, "var", {psi_start}),
      Store(1 + cte_start, "var", {cte_start}),
      Store(1 + epsi_start, "var", {epsi_start})>>

\* the five model constraints of step t.  f0 and psides0 read x0.
DynamicsStores(t) ==
    <<Store(1 + x_start + t, "dynamics",
            {x_start + t, x_start + t - 1, v_start + t - 1, psi_start + t - 1}),
      Store(1 + y_start + t, "dynamics",
            {y_start + t, y_start + t - 1, v_start + t - 1, psi_start + t - 1}),
      Store(1 + psi_start + t, "dynamics",
            {psi_start + t, psi_start + t - 1, v_start + t - 1, delta_start + t - 1}),
      Store(1 + cte_start + t, "dynamics",
            {cte_start + t, x_start + t - 1, y_start + t - 1, v_start + t - 1,
             epsi_start + t - 1}),
      Store(1 + epsi_start + t, "dynamics",
            {epsi_start + t, psi_start + t - 1, x_start + t - 1, v_start + t - 1,
             delta_start + t - 1})>>

\* the elements of vars the body of the dynamics loop copies into locals
DynamicsLoads(t) ==
    {f + t : f \in {x_start, y_start, psi_start, cte_start, epsi_start}}
    \cup {f + t - 1 : f \in {x_start, y_start, psi_start, cte_start, epsi_start}}
    \cup {delta_start + t - 1, v_start + t - 1}

FG_eval(coeffs) ==
    [coeffs |-> coeffs,
     stores |-> CostStores \o InitialStores \o ForLoop(1, N, DynamicsStores),
     loads |-> UNION {DynamicsLoads(t) : t \in 1..(N - 1)}]

(***************************************************************************)
(* CppAD::ipopt::solve: an external solver.  It evaluates fg_eval, returns *)
(* a status and a point solution.x of n_vars entries; the point lies       *)
(* within the variable bounds it was given.  The point is built from two   *)
(* arbitrary values, used at the even and at the odd indices, each moved   *)
(* into the bounds of the index it lands on.                               *)
(***************************************************************************)
Clamp(p, lo, hi) == IF DLt(p, lo) THEN lo ELSE IF DLt(hi, p) THEN hi ELSE p

ipopt_solve(lower, upper, pEven, pOdd) ==
    [i \in DOMAIN lower |->
        Clamp(IF i % 2 = 0 THEN pEven ELSE pOdd, lower[i], upper[i])]

Statuses == {"success", "maxiter_exceeded", "unknown"}
Points == {Dbl(-1, 19), Dbl(-5, 0), Dbl(2, -1), Dbl(1, 2)}

\* state = (x, y, psi, cte, epsi): inputs with pairwise distinct components
StateArgs ==
    { <<Dbl(1, 0), Dbl(2, 0), Dbl(3, -1), Dbl(4, -1), Dbl(5, -1)>>,
      <<Dbl(0, 0), Dbl(1, 2), Dbl(-3, 0), Dbl(1, 19), Dbl(-1, 19)>> }

\* coefficients of the reference polynomial: a straight line, and a cubic
\* with huge coefficients
CoeffArgs ==
    { <<Dbl(0, 0), Dbl(1, 0), Dbl(0, 0), Dbl(0, 0)>>,
      <<Dbl(-1, 19), Dbl(1, 19), Dbl(-1, 19), Dbl(1, 19)>> }

MPC_Init ==
    /\ x_vals = << >>
    /\ y_vals = << >>
    /\ call = [op |-> "MPC"]

\* the vector Solve returns: result.push_back(solution.x[delta_start]);
\* result.push_back(solution.x[v_start])
Result(x) == <<x[delta_start], x[v_start]>>

\* solution.x[start + i] for i = 1 .. N-1, pushed back in turn
Predicted(x, start) == ForLoop(1, N, LAMBDA i : <<x[start + i]>>)

Solve(state, coeffs, status, pEven, pOdd) ==
    \E lower \in {vars_lowerbound} :
    \E upper \in {vars_upperbound} :
    \E x \in {ipopt_solve(lower, upper, pEven, pOdd)} :
        /\ call' = [op |-> "Solve",
                    state |-> state,
                    n_vars |-> n_vars,
                    n_constraints |-> n_constraints,
                    vars |-> InitialVars([k \in 0..4 |-> state[k + 1]]),
                    vars_lowerbound |-> lower,
                    vars_upperbound |-> upper,
                    constraints_lowerbound |->
                        constraints_lowerbound([k \in 0..4 |-> state[k + 1]]),
                    constraints_upperbound |->
                        constraints_upperbound([k \in 0..4 |-> state[k + 1]]),
                    fg |-> FG_eval(coeffs),
                    status |-> status,
                    x |-> x,
                    ok |-> (status = "success"),
                    result |-> Result(x)]
        /\ x_vals' = Predicted(x, x_start)
        /\ y_vals' = Predicted(x, y_start)

MPC_Next ==
    \E state \in StateArgs, coeffs \in CoeffArgs, status \in Statuses,
       pEven \in Points, pOdd \in Points :
        Solve(state, coeffs, status, pEven, pOdd)

(***************************************************************************)
(* waypoint.cpp: the waypoint-following node.  main starts drive on        *)
(* gps_thread and then runs ros::spin, which runs the subscriber callbacks *)
(* one after the other on the main thread.  The two threads share          *)
(* starl_flag, gotWP, current_waypoint and vicon_position with no mutex    *)
(* and no atomic, so every access of a shared object is a step of its own  *)
(* and the steps of the two threads interleave freely.  The sequentially   *)
(* consistent interleavings explored here are among the outcomes a build   *)
(* of the racy program can produce.                                        *)
(*                                                                         *)
(* Coordinates are whole numbers of length units, which a double holds     *)
(* exactly.  speed is counted in steps of DELTA_SPEED and direction in     *)
(* steps of DELTA_DIRECTION.  The z field is copied by the callbacks and   *)
(* read by nothing that runs (print_thread is never started), and          *)
(* getDecaPosition writes deca_position, which only printToFile reads;     *)
(* both are left out.                                                      *)
(***************************************************************************)
MaxLoops == 2       \* iterations of the while loop of drive
MaxWaypoints == 2   \* messages delivered to getWP
MaxPoses == 2       \* messages delivered to getViconPosition
SPEED_LIMIT == 8        \* fmax(fmin(speed, 2), -2), in steps of 0.25
DIRECTION_LIMIT == 35   \* fmax(fmin(direction, 0.35), -0.35), in steps of 0.01

VARIABLES
    starl_flag, isDriving, gotWP,    \* waypoint.cpp globals, lines 25-27
    speed, direction,                \* line 29
    prev_loc, curr_loc,              \* line 30
    vicon_position, current_waypoint, \* lines 38-39
    rosOk,          \* what ros::ok() returns
    drive_pc,       \* the line gps_thread is about to execute
    drive_x,        \* the x field gps_thread has read of the point it is copying
    spin_pc,        \* the line the main thread is about to execute
    spin_msg,       \* the point of the message the running callback was given
    ackermann_cmd,  \* the last message published on /ackermann_cmd
    Reached,        \* the last message published on /Reached, with the
                    \* coordinates the distance test read and the waypoint
                    \* stored when it was published
    tested,         \* the coordinates the last distance test that passed read
    owed,           \* the waypoint getWP finished storing and flagging that
                    \* the distance test has not yet passed against
    received,       \* the points of the messages handed to getWP so far
    nLoops, nWaypoints, nPoses

wpVars == <<starl_flag, isDriving, gotWP, speed, direction, prev_loc, curr_loc,
            vicon_position, current_waypoint, rosOk, drive_pc, drive_x,
            spin_pc, spin_msg, ackermann_cmd, Reached, tested, owed, received,
            nLoops, nWaypoints, nPoses>>
vars == <<tdoaVars, mpcVars, wpVars>>

Point(x, y) == [x |-> x, y |-> y]
NoPoint == [x |-> -1, y |-> -1]
NoMsg == [data |-> "none"]
WaypointArgs == {Point(1, 1), Point(2, 2)}
PoseArgs == {Point(1, 1), Point(2, 1), Point(2, 2)}

\* sqrt(pow(a.x - b.x, 2) + pow(a.y - b.y, 2)) < 0.3, squared on both sides
Within03(a, b) ==
    100 * ((a.x - b.x) * (a.x - b.x) + (a.y - b.y) * (a.y - b.y)) < 9

\* atan2(y, x) for x, y in -2..2, as the rank of the angle among the sixteen
\* directions such a vector can have: rank r and rank r + 8 are pi apart,
\* rank 8 is pi, atan2(0, 0) = 0, and neighbouring ranks are more than
\* EPSILON_ANGLE apart.
Atan2Rank(y, x) ==
    LET up(dx, dy) ==
            IF dx > 0 THEN (IF 2 * dy = dx THEN 1 ELSE IF dy = dx THEN 2 ELSE 3)
            ELSE IF dx = 0 THEN 4
            ELSE (IF dy = -2 * dx THEN 5 ELSE IF dy = -dx THEN 6 ELSE 7)
    IN  IF y = 0 THEN (IF x >= 0 THEN 0 ELSE 8)
        ELSE IF y > 0 THEN up(x, y)
        ELSE -up(x, -y)

get_angle_between_3_pts(center, waypoint, next_pos) ==
    Atan2Rank(waypoint.y - center.y, waypoint.x - center.x)
        - Atan2Rank(next_pos.y - center.y, next_pos.x - center.x)

\* lines 98-99: the angle error brought back into [-pi, pi], in ranks
WrapAngle(a) == IF a > 8 THEN a - 16 ELSE IF a < -8 THEN a + 16 ELSE a

\* lines 104-111: a_error < EPSILON_ANGLE is a_error <= 0 in ranks
Steer(dir, a_error) ==
    IF a_error <= 0 THEN dir - 1 ELSE dir + 1

\* fmax(fmin(v, hi), -hi)
Limit(v, hi) == IF v > hi THEN hi ELSE IF v < -hi THEN -hi ELSE v

Waypoint_Init ==
    /\ starl_flag = FALSE /\ isDriving = FALSE /\ gotWP = FALSE
    /\ speed = 0 /\ direction = 0
    /\ prev_loc = Point(0, 0) /\ curr_loc = Point(0, 0)
    /\ vicon_position = Point(0, 0)
    /\ current_waypoint = Point(0, 0)
    /\ rosOk = TRUE
    /\ drive_pc = "l69" /\ drive_x = 0
    /\ spin_pc = "spin" /\ spin_msg = NoPoint
    /\ ackermann_cmd = NoMsg /\ Reached = NoMsg
    /\ tested = NoPoint /\ owed = NoPoint /\ received = {}
    /\ nLoops = 0 /\ nWaypoints = 0 /\ nPoses = 0

mainShared == <<isDriving, vicon_position, spin_pc, spin_msg, received,
                nWaypoints, nPoses, rosOk>>
driveLocal == <<speed, direction, prev_loc, curr_loc, drive_pc, drive_x,
                ackermann_cmd, Reached, tested, nLoops>>

(* gps_thread: drive *)

\* line 69: while (ros::ok())
drive_while ==
    /\ drive_pc = "l69"
    /\ rosOk => nLoops < MaxLoops
    /\ drive_pc' = IF rosOk THEN "l72" ELSE "l125"
    /\ nLoops' = IF rosOk THEN nLoops + 1 ELSE nLoops
    /\ UNCHANGED <<starl_flag, gotWP, current_waypoint, owed, mainShared,
                   speed, direction, prev_loc, curr_loc, drive_x,
                   ackermann_cmd, Reached,
                   tested>>

\* lines 72-73: prev_loc = curr_loc; the copy of vicon_position reads x
drive_copy_x ==
    /\ drive_pc = "l72"
    /\ prev_loc' = curr_loc
    /\ curr_loc' = [curr_loc EXCEPT !.x = vicon_position.x]
    /\ drive_pc' = "l73"
    /\ UNCHANGED <<starl_flag, gotWP, current_waypoint, owed, mainShared,
                   speed, direction, drive_x, ackermann_cmd, Reached, nLoops,
                   tested>>

\* line 73: the copy of vicon_position reads y
drive_copy_y ==
    /\ drive_pc = "l73"
    /\ curr_loc' = [curr_loc EXCEPT !.y = vicon_position.y]
    /\ drive_pc' = "l77"
    /\ UNCHANGED <<starl_flag, gotWP, current_waypoint, owed, mainShared,
                   speed, direction, prev_loc, drive_x, ackermann_cmd,
                   Reached, nLoops,
                   tested>>

\* line 77: if (starl_flag)
drive_test_flag ==
    /\ drive_pc = "l77"
    /\ drive_pc' = IF starl_flag THEN "l79" ELSE "l95"
    /\ UNCHANGED <<starl_flag, gotWP, current_waypoint, owed, mainShared,
                   speed, direction, prev_loc, curr_loc, drive_x,
                   ackermann_cmd, Reached, nLoops,
                   tested>>

\* line 79: the distance test reads current_waypoint.x
drive_dist_x ==
    /\ drive_pc = "l79"
    /\ drive_x' = current_waypoint.x
    /\ drive_pc' = "l79y"
    /\ UNCHANGED <<starl_flag, gotWP, current_waypoint, owed, mainShared,
                   speed, direction, prev_loc, curr_loc, ackermann_cmd,
                   Reached, nLoops,
                   tested>>

\* line 79: the distance test reads current_waypoint.y and compares
drive_dist_y ==
    /\ drive_pc = "l79y"
    /\ \E w \in {Point(drive_x, current_waypoint.y)} :
        IF Within03(curr_loc, w)
        THEN /\ drive_pc' = "l84"
             /\ tested' = w
             /\ owed' = IF owed = w THEN NoPoint ELSE owed
        ELSE /\ drive_pc' = "l95"
             /\ UNCHANGED <<tested, owed>>
    /\ UNCHANGED <<starl_flag, gotWP, current_waypoint, mainShared,
                   speed, direction, prev_loc, curr_loc, drive_x,
                   ackermann_cmd, Reached, nLoops>>

\* line 84: starl_flag = false
drive_clear_starl ==
    /\ drive_pc = "l84"
    /\ starl_flag' = FALSE
    /\ drive_pc' = "l85"
    /\ UNCHANGED <<gotWP, current_waypoint, owed, mainShared,
                   speed, direction, prev_loc, curr_loc, drive_x,
                   ackermann_cmd, Reached, nLoops,
                   tested>>

\* line 85: reached_pub.publish(wp_reached)
drive_publish_reached ==
    /\ drive_pc = "l85"
    /\ Reached' = [data |-> "TRUE", tested |-> tested,
                   stored |-> current_waypoint]
    /\ drive_pc' = "l87"
    /\ UNCHANGED <<starl_flag, gotWP, current_waypoint, owed, mainShared,
                   speed, direction, prev_loc, curr_loc, drive_x,
                   ackermann_cmd, nLoops,
                   tested>>

\* lines 87-89: gotWP = false; speed = 0; direction = 0
drive_clear_gotWP ==
    /\ drive_pc = "l87"
    /\ gotWP' = FALSE
    /\ speed' = 0
    /\ direction' = 0
    /\ drive_pc' = "l95"
    /\ UNCHANGED <<starl_flag, current_waypoint, owed, mainShared,
                   prev_loc, curr_loc, drive_x, ackermann_cmd, Reached,
                   nLoops,
                   tested>>

\* line 95: if (gotWP)
drive_test_gotWP ==
    /\ drive_pc = "l95"
    /\ drive_pc' = IF gotWP THEN "l97" ELSE "l117"
    /\ UNCHANGED <<starl_flag, gotWP, current_waypoint, owed, mainShared,
                   speed, direction, prev_loc, curr_loc, drive_x,
                   ackermann_cmd, Reached, nLoops,
                   tested>>

\* line 97: the argument copy of current_waypoint reads x
drive_angle_x ==
    /\ drive_pc = "l97"
    /\ drive_x' = current_waypoint.x
    /\ drive_pc' = "l97y"
    /\ UNCHANGED <<starl_flag, gotWP, current_waypoint, owed, mainShared,
                   speed, direction, prev_loc, curr_loc, ackermann_cmd,
                   Reached, nLoops,
                   tested>>

\* lines 97-114: the argument copy reads y; angle error, speed and direction
drive_steer ==
    /\ drive_pc = "l97y"
    /\ \E a_error \in {WrapAngle(get_angle_between_3_pts(prev_loc,
                          Point(drive_x, current_waypoint.y), curr_loc))} :
        /\ speed' = Limit(speed + 1, SPEED_LIMIT)
        /\ direction' = Limit(Steer(direction, a_error), DIRECTION_LIMIT)
    /\ drive_pc' = "l117"
    /\ UNCHANGED <<starl_flag, gotWP, current_waypoint, owed, mainShared,
                   prev_loc, curr_loc, drive_x, ackermann_cmd, Reached,
                   nLoops,
                   tested>>

\* lines 117-122: publish the drive message, sleep
drive_publish_cmd ==
    /\ drive_pc = "l117"
    /\ ackermann_cmd' = [data |-> "drive", speed |-> speed,
                         steering_angle |-> direction]
    /\ drive_pc' = "l69"
    /\ UNCHANGED <<starl_flag, gotWP, current_waypoint, owed, mainShared,
                   speed, direction, prev_loc, curr_loc, drive_x, Reached,
                   nLoops,
                   tested>>

\* lines 125-128: after the loop, publish the stop message
drive_stop ==
    /\ drive_pc = "l125"
    /\ ackermann_cmd' = [data |-> "drive", speed |-> 0, steering_angle |-> 0]
    /\ drive_pc' = "done"
    /\ UNCHANGED <<starl_flag, gotWP, current_waypoint, owed, mainShared,
                   speed, direction, prev_loc, curr_loc, drive_x, Reached,
                   nLoops,
                   tested>>

drive ==
    \/ drive_while \/ drive_copy_x \/ drive_copy_y \/ drive_test_flag
    \/ drive_dist_x \/ drive_dist_y \/ drive_clear_starl
    \/ drive_publish_reached \/ drive_clear_gotWP \/ drive_test_gotWP
    \/ drive_angle_x \/ drive_steer \/ drive_publish_cmd \/ drive_stop

(* main thread: ros::spin and the callbacks it runs *)

\* ros::spin takes a message of /Waypoint_<bot> and calls getWP (line 159)
spin_getWP(point) ==
    /\ spin_pc = "spin"
    /\ rosOk
    /\ nWaypoints < MaxWaypoints
    /\ nWaypoints' = nWaypoints + 1
    /\ spin_msg' = point
    /\ received' = received \cup {point}
    /\ spin_pc' = "l161"
    /\ UNCHANGED <<starl_flag, gotWP, current_waypoint, owed, isDriving,
                   vicon_position, nPoses, rosOk, driveLocal>>

\* line 161: current_waypoint.x = point.x
getWP_x ==
    /\ spin_pc = "l161"
    /\ current_waypoint' = [current_waypoint EXCEPT !.x = spin_msg.x]
    /\ spin_pc' = "l162"
    /\ UNCHANGED <<starl_flag, gotWP, owed, isDriving, vicon_position,
                   spin_msg, received, nWaypoints, nPoses, rosOk, driveLocal>>

\* lines 162-163: current_waypoint.y = point.y
getWP_y ==
    /\ spin_pc = "l162"
    /\ current_waypoint' = [current_waypoint EXCEPT !.y = spin_msg.y]
    /\ spin_pc' = "l165"
    /\ UNCHANGED <<starl_flag, gotWP, owed, isDriving, vicon_position,
                   spin_msg, received, nWaypoints, nPoses, rosOk, driveLocal>>

\* line 165: gotWP = true
getWP_gotWP ==
    /\ spin_pc = "l165"
    /\ gotWP' = TRUE
    /\ spin_pc' = "l166"
    /\ UNCHANGED <<starl_flag, current_waypoint, owed, isDriving,
                   vicon_position, spin_msg, received, nWaypoints, nPoses,
                   rosOk, driveLocal>>

\* line 166: starl_flag = true
getWP_starl ==
    /\ spin_pc = "l166"
    /\ starl_flag' = TRUE
    /\ owed' = spin_msg
    /\ spin_pc' = "l168"
    /\ UNCHANGED <<gotWP, current_waypoint, isDriving, vicon_position,
                   spin_msg, received, nWaypoints, nPoses, rosOk, driveLocal>>

\* lines 168-171: if (!isDriving) isDriving = true; return to ros::spin
getWP_isDriving ==
    /\ spin_pc = "l168"
    /\ isDriving' = TRUE
    /\ spin_pc' = "spin"
    /\ UNCHANGED <<starl_flag, gotWP, current_waypoint, owed, vicon_position,
                   spin_msg, received, nWaypoints, nPoses, rosOk, driveLocal>>

getWP == getWP_x \/ getWP_y \/ getWP_gotWP \/ getWP_starl \/ getWP_isDriving

\* ros::spin takes a pose message and calls getViconPosition
spin_getViconPosition(position) ==
    /\ spin_pc = "spin"
    /\ rosOk
    /\ nPoses < MaxPoses
    /\ nPoses' = nPoses + 1
    /\ spin_msg' = position
    /\ spin_pc' = "l52"
    /\ UNCHANGED <<starl_flag, gotWP, current_waypoint, owed, isDriving,
                   vicon_position, received, nWaypoints, rosOk, driveLocal>>

\* line 52: vicon_position = pose.pose.position writes x
getViconPosition_x ==
    /\ spin_pc = "l52"
    /\ vicon_position' = [vicon_position EXCEPT !.x = spin_msg.x]
    /\ spin_pc' = "l52y"
    /\ UNCHANGED <<starl_flag, gotWP, current_waypoint, owed, isDriving,
                   spin_msg, received, nWaypoints, nPoses, rosOk, driveLocal>>

\* line 52: the assignment writes y; return to ros::spin
getViconPosition_y ==
    /\ spin_pc = "l52y"
    /\ vicon_position' = [vicon_position EXCEPT !.y = spin_msg.y]
    /\ spin_pc' = "spin"
    /\ UNCHANGED <<starl_flag, gotWP, current_waypoint, owed, isDriving,
                   spin_msg, received, nWaypoints, nPoses, rosOk, driveLocal>>

getViconPosition == getViconPosition_x \/ getViconPosition_y

\* the node is shut down: ros::ok() turns false and ros::spin returns
\* (line 207) once no callback is running
spin_returns ==
    /\ spin_pc = "spin"
    /\ rosOk
    /\ rosOk' = FALSE
    /\ spin_pc' = "l209"
    /\ UNCHANGED <<starl_flag, gotWP, current_waypoint, owed, isDriving,
                   vicon_position, spin_msg, received, nWaypoints, nPoses,
                   driveLocal>>

\* lines 209-215: gps_thread.join(), then main publishes the stop message
main_join ==
    /\ spin_pc = "l209"
    /\ drive_pc = "done"
    /\ ackermann_cmd' = [data |-> "drive", speed |-> 0, steering_angle |-> 0,
                         from |-> "main"]
    /\ spin_pc' = "exit"
    /\ UNCHANGED <<starl_flag, gotWP, current_waypoint, owed, isDriving,
                   vicon_position, spin_msg, received, nWaypoints, nPoses,
                   rosOk, speed, direction, prev_loc, curr_loc, drive_pc,
                   drive_x, Reached, tested, nLoops>>

Waypoint_Next ==
    \/ drive
    \/ \E point \in WaypointArgs : spin_getWP(point)
    \/ getWP
    \/ \E position \in PoseArgs : spin_getViconPosition(position)
    \/ getViconPosition
    \/ spin_returns
    \/ main_join

(***************************************************************************)
(* Specifications: the estimator, the controller and the waypoint node are *)
(* separate objects (the node is a process of its own); each is explored   *)
(* with the others left as constructed.  Within TDOA the                   *)
(* filter operations write S, P and A only and setAncPosition writes the   *)
(* anchor table only, and none of them reads what the others write, so     *)
(* the two groups are explored one at a time.                              *)
(***************************************************************************)
Init == TDOA_Init /\ MPC_Init /\ Waypoint_Init
TDOA_Step == TDOA_Next /\ UNCHANGED <<mpcVars, wpVars>>
Anchor_Step == Anchor_Next /\ UNCHANGED <<mpcVars, wpVars>>
MPC_Step == MPC_Next /\ UNCHANGED <<tdoaVars, wpVars>>
Waypoint_Step == Waypoint_Next /\ UNCHANGED <<tdoaVars, mpcVars>>
SpecTDOA == Init /\ [][TDOA_Step]_vars
SpecAnchors == Init /\ [][Anchor_Step]_vars
SpecMPC == Init /\ [][MPC_Step]_vars
SpecWaypoint == Init /\ [][Waypoint_Step]_vars

(***************************************************************************)
(* Properties of TDOA                                                      *)
(***************************************************************************)
Is6x6(m) == Len(m) = 6 /\ \A i \in 1..Len(m) : Len(m[i]) = 6

\* C1: setTransitionMat / setPredictionMat called with a matrix whose row or
\* column count is not 6 leave A, P, S and the anchor table exactly as they
\* were, also when called again with the same matrix; a 6x6 argument replaces
\* A (resp. P) and nothing else.
C1_SetMatrixSizeCheck ==
    [][ /\ last'.op = "setTransitionMat" =>
             IF Is6x6(last'.m)
             THEN A' = last'.m /\ UNCHANGED <<P, S, anchorPosition, pastTable>>
             ELSE UNCHANGED <<A, P, S, anchorPosition, pastTable>>
        /\ last'.op = "setPredictionMat" =>
             IF Is6x6(last'.m)
             THEN P' = last'.m /\ UNCHANGED <<A, S, anchorPosition, pastTable>>
             ELSE UNCHANGED <<A, P, S, anchorPosition, pastTable>>
      ]_tdoaVars

\* a wrong-sized matrix has been passed to setTransitionMat twice in a row
C1_Witness ==
    /\ last.op = "setTransitionMat"
    /\ ~Is6x6(last.m)
    /\ last.again
    /\ nSet = 2
    /\ A = CtorA

\* C2: setAncPosition(id, pos) with id < 0 or id >= MAX_NR_ANCHORS changes no
\* anchor position and writes nothing outside the table; with
\* 0 <= id < MAX_NR_ANCHORS it overwrites exactly that anchor's position.
C2_SetAncPositionBounds ==
    [][ last'.op = "setAncPosition" =>
          IF last'.anc_num < 0 \/ last'.anc_num >= MAX_NR_ANCHORS
          THEN UNCHANGED <<anchorPosition, pastTable>>
          ELSE /\ anchorPosition' =
                    [anchorPosition EXCEPT ![last'.anc_num] = last'.anc_pos]
               /\ UNCHANGED pastTable
      ]_tdoaVars

\* C4: a scalar update whose innovation variance H*P*H' + stdMeasNoise^2 is
\* zero or negative is rejected: S and P keep their values.
C4_NonPositiveInnovationRejected ==
    [][ (last'.op = "stateEstimatorScalarUpdate" /\ Le(last'.HPHR, Zero))
            => (S' = S /\ P' = P)
      ]_tdoaVars

\* C6: stateEstimatorPredict sets P to A*P*A' and leaves S (hence the value of
\* getLocation), A, the anchor positions and the noise standard deviation
\* unchanged, at every one of any number of consecutive calls.
C6_PredictChangesOnlyP ==
    [][ last'.op = "stateEstimatorPredict" =>
          /\ P' = MatMul(MatMul(A, P), Transpose(A))
          /\ UNCHANGED <<S, A, anchorPosition, stdDev>>
          /\ getLocation' = getLocation
      ]_tdoaVars

\* predict has run MaxPredict times in a row on the constructed object
C6_Witness ==
    /\ last.op = "stateEstimatorPredict"
    /\ nPredict = MaxPredict /\ nUpdate = 0 /\ nSet = 0
    /\ P # CtorP
    /\ S = CtorS /\ A = CtorA

\* Pm is symmetric with a non-negative diagonal, every row has at most one
\* non-zero entry off the diagonal, and each such entry satisfies
\* Pm(i,j)^2 < Pm(i,i)*Pm(j,j) (decided on the rounded products, which order
\* as the exact ones do when they differ): Pm is then a direct sum of
\* positive-semidefinite 1x1 and 2x2 blocks.
BlockPSD(Pm) ==
    /\ Is6x6(Pm)
    /\ \A i, j \in 0..5 : At(Pm, i, j) = At(Pm, j, i)
    /\ \A i \in 0..5 :
         /\ IsFinite(At(Pm, i, i)) /\ Le(Zero, At(Pm, i, i))
         /\ Cardinality({j \in 0..5 : j # i /\ At(Pm, i, j) # Zero}) <= 1
         /\ \A j \in 0..5 :
              (j # i /\ At(Pm, i, j) # Zero) =>
                  Lt(Mul(At(Pm, i, j), At(Pm, i, j)),
                     Mul(At(Pm, i, i), At(Pm, j, j)))

\* H has exactly one non-zero component
SingleComponent(H) == Cardinality({i \in 0..5 : El(H, i) # Zero}) = 1

\* the step is a scalar update with residual 0 on a symmetric PSD covariance
\* with positive innovation variance
ZeroResidualUpdate ==
    /\ last'.op = "stateEstimatorScalarUpdate"
    /\ last'.error = Zero
    /\ BlockPSD(P)
    /\ Lt(Zero, last'.HPHR)

\* C7 (as stated): a scalar update with residual 0, on a symmetric PSD P with
\* positive innovation variance, leaves S unchanged and no diagonal entry of P
\* larger than before, for every observation row H.
C7_ZeroResidualAnyRow ==
    [][ ZeroResidualUpdate =>
          /\ S' = S
          /\ \A i \in 0..5 : Le(At(P', i, i), At(P, i, i))
      ]_tdoaVars

\* C7 (amended): such an update leaves S unchanged for every H, and leaves no
\* diagonal entry of P larger than before when H has a single non-zero
\* component.
C7_ZeroResidualSingleComponent ==
    [][ ZeroResidualUpdate =>
          /\ S' = S
          /\ SingleComponent(last'.H) =>
                \A i \in 0..5 : Le(At(P', i, i), At(P, i, i))
      ]_tdoaVars

\* a residual-0 update along x has shrunk P[x,x] and left S alone
C7_Witness ==
    /\ last.op = "stateEstimatorScalarUpdate"
    /\ last.error = Zero
    /\ SingleComponent(last.H)
    /\ BlockPSD(last.P0)
    /\ Lt(Zero, last.HPHR)
    /\ Lt(At(P, STATE_X, STATE_X), At(last.P0, STATE_X, STATE_X))
    /\ S = CtorS

\* the step is a predict on the constructor's A and a covariance that only
\* predict calls have touched since construction
PredictFromCtor == last'.op = "stateEstimatorPredict" /\ onlyPredicted

\* C8 (as stated): from the constructor's P and A, with no update in between,
\* every predict strictly increases P[x,x] and P[y,y].
C8_PredictStrictlyGrows ==
    [][ PredictFromCtor =>
          /\ Lt(At(P, STATE_X, STATE_X), At(P', STATE_X, STATE_X))
          /\ Lt(At(P, STATE_Y, STATE_Y), At(P', STATE_Y, STATE_Y))
      ]_tdoaVars

\* C8 (amended): from the constructor's P and A, with no update in between,
\* no predict makes P[x,x] or P[y,y] smaller than it was before the call.
C8_PredictNeverShrinks ==
    [][ PredictFromCtor =>
          /\ Le(At(P, STATE_X, STATE_X), At(P', STATE_X, STATE_X))
          /\ Le(At(P, STATE_Y, STATE_Y), At(P', STATE_Y, STATE_Y))
      ]_tdoaVars

\* MaxPredict predicts after construction: the x/vx covariance has grown
\* while P[x,x] still holds the constructor's 100^2
C8_Witness ==
    /\ last.op = "stateEstimatorPredict"
    /\ onlyPredicted
    /\ nPredict = MaxPredict
    /\ Lt(Zero, At(P, STATE_X, STATE_VX))
    /\ At(P, STATE_X, STATE_X) = Powf2(FromInt(100))
(***************************************************************************)
(* Properties of MPC::Solve                                                *)
(***************************************************************************)
\* C3: when the solver's status is not success, Solve does not return the
\* actuation pair taken from the solver's point solution.x.
C3_FailureNotReturnedAsCommand ==
    (call.op = "Solve" /\ call.status # "success")
        => call.result # <<call.x[6 * N - 1], call.x[5 * N]>>

\* C5: the returned pair has its steering in [-0.35, 0.35] and its speed in
\* [-3, 3]; the first element is the first steering variable, the second the
\* first speed variable; all N-1 steering variables are bounded by -0.35/0.35,
\* all N-1 speed variables by -3/3 and all 5N state variables by -1e19/1e19.
C5_ActuationWithinBounds ==
    call.op = "Solve" =>
        /\ DLe(Dbl(-35, -2), call.result[1]) /\ DLe(call.result[1], Dbl(35, -2))
        /\ DLe(Dbl(-3, 0), call.result[2]) /\ DLe(call.result[2], Dbl(3, 0))
        /\ call.result = <<call.x[6 * N - 1], call.x[5 * N]>>
        /\ DOMAIN call.vars_lowerbound = 0..(7 * N - 3)
        /\ DOMAIN call.vars_upperbound = 0..(7 * N - 3)
        /\ \A i \in (6 * N - 1)..(7 * N - 3) :
              /\ call.vars_lowerbound[i] = Dbl(-35, -2)
              /\ call.vars_upperbound[i] = Dbl(35, -2)
        /\ \A i \in (5 * N)..(6 * N - 2) :
              /\ call.vars_lowerbound[i] = Dbl(-3, 0)
              /\ call.vars_upperbound[i] = Dbl(3, 0)
        /\ \A i \in 0..(5 * N - 1) :
              /\ call.vars_lowerbound[i] = Dbl(-1, 19)
              /\ call.vars_upperbound[i] = Dbl(1, 19)

\* the solver pushed against both bounds: steering 0.35 and speed -3 returned
C5_Witness ==
    /\ call.op = "Solve"
    /\ call.status = "success"
    /\ call.result = <<Dbl(35, -2), Dbl(-3, 0)>>

\* C9: each of the five t=0 constraints has lower bound = upper bound = the
\* matching component of the input state and its expression is exactly the
\* t=0 variable of its field, so that a value within its bounds equals that
\* component; the other 5(N-1) constraints have lower bound = upper bound = 0.
C9_InitialStatePinned ==
    call.op = "Solve" =>
        /\ \A k \in 0..4 :
              /\ call.constraints_lowerbound[k * N] = call.state[k + 1]
              /\ call.constraints_upperbound[k * N] = call.state[k + 1]
              /\ \E j \in DOMAIN call.fg.stores :
                    /\ call.fg.stores[j] = [slot |-> 1 + k * N, expr |-> "var",
                                            reads |-> {k * N}]
                    /\ \A i \in DOMAIN call.fg.stores :
                          call.fg.stores[i].slot = 1 + k * N => i = j
              /\ \A p \in Points \cup {call.state[c] : c \in 1..5} :
                    (DLe(call.constraints_lowerbound[k * N], p)
                         /\ DLe(p, call.constraints_upperbound[k * N]))
                        => p = call.state[k + 1]
        /\ DOMAIN call.constraints_lowerbound = 0..(5 * N - 1)
        /\ DOMAIN call.constraints_upperbound = 0..(5 * N - 1)
        /\ \A i \in 0..(5 * N - 1) :
              i % N # 0 => /\ call.constraints_lowerbound[i] = Dbl(0, 0)
                           /\ call.constraints_upperbound[i] = Dbl(0, 0)

\* Solve was called with state (1, 2, 0.3, 0.4, 0.5)
C9_Witness ==
    /\ call.op = "Solve"
    /\ call.constraints_lowerbound[3 * N] = Dbl(4, -1)
    /\ call.constraints_upperbound[4 * N] = Dbl(5, -1)
    /\ call.constraints_lowerbound[1] = Dbl(0, 0)
    /\ call.vars[0] = Dbl(1, 0)

\* the index range of field k: x, y, psi, cte, epsi (N entries each), then
\* speed and steering (N-1 entries each)
FieldStarts == <<x_start, y_start, psi_start, cte_start, epsi_start, v_start,
                 delta_start>>
FieldRange(k) == FieldStarts[k]..(FieldStarts[k] + (IF k <= 5 THEN N ELSE N - 1) - 1)

\* what the model constraints of step t may read: the state variables of steps
\* t and t-1, and the speed and steering variables of step t-1
StepVars(t) ==
    {f * N + t : f \in 0..4} \cup {f * N + t - 1 : f \in 0..4}
    \cup {5 * N + t - 1, 5 * N + (N - 1) + t - 1}

\* C10: the decision vector has 5N + 2(N-1) entries; the seven field ranges
\* are contiguous, pairwise disjoint and cover all its indices; every index
\* FG_eval reads or writes is in range; each constraint slot 1..5N is written
\* exactly once; the constraints of step t >= 1 read only the state variables
\* of steps t and t-1 and the speed/steering variables of step t-1.
C10_DecisionVectorLayout ==
    call.op = "Solve" =>
        /\ call.n_vars = 5 * N + 2 * (N - 1)
        /\ DOMAIN call.vars = 0..(call.n_vars - 1)
        /\ FieldStarts[1] = 0
        /\ \A k \in 1..6 : FieldStarts[k + 1] = FieldStarts[k] + Cardinality(FieldRange(k))
        /\ \A k, l \in 1..7 : k # l => FieldRange(k) \cap FieldRange(l) = {}
        /\ UNION {FieldRange(k) : k \in 1..7} = 0..(call.n_vars - 1)
        /\ \A j \in DOMAIN call.fg.stores :
              /\ call.fg.stores[j].slot \in 0..(5 * N)
              /\ call.fg.stores[j].reads \subseteq 0..(call.n_vars - 1)
              /\ (call.fg.stores[j].slot >= 1
                      /\ (call.fg.stores[j].slot - 1) % N >= 1)
                    => call.fg.stores[j].reads
                           \subseteq StepVars((call.fg.stores[j].slot - 1) % N)
        /\ call.fg.loads \subseteq 0..(call.n_vars - 1)
        /\ \A s \in 1..(5 * N) :
              Cardinality({j \in DOMAIN call.fg.stores :
                              call.fg.stores[j].slot = s}) = 1

\* FG_eval has run all its loops: the last steering variable has been read and
\* the last constraint slot written
C10_Witness ==
    /\ call.op = "Solve"
    /\ \E j \in DOMAIN call.fg.stores :
          /\ call.fg.stores[j].slot = 5 * N
          /\ (7 * N - 3) \in call.fg.stores[j].reads
    /\ Len(x_vals) = N - 1

(***************************************************************************)
(* Properties of the waypoint node                                         *)
(***************************************************************************)
\* From the moment getWP has stored a waypoint and set both flags until the
\* distance test of drive passes against the coordinates of that waypoint,
\* gotWP and starl_flag are both true.
FlagsHeldUntilReached == owed # NoPoint => gotWP /\ starl_flag

\* A "TRUE" on /Reached is for the waypoint stored when it is published: the
\* distance test that led to it read exactly those coordinates, and they are
\* the coordinates of a waypoint message.
ReachedOnlyForTestedWaypoint ==
    Reached.data = "TRUE" =>
        /\ Reached.tested = Reached.stored
        /\ Reached.tested \in received

\* C11: under every interleaving of getWP (main thread) with the drive loop
\* (gps_thread) a received waypoint is never lost: once getWP has stored it
\* and set gotWP and starl_flag, both flags stay true until drive observes
\* the vehicle within 0.3 of that same waypoint, and "TRUE" is published on
\* /Reached only for a waypoint whose stored coordinates the distance test
\* was evaluated against.
C11_WaypointNeverLost ==
    FlagsHeldUntilReached /\ ReachedOnlyForTestedWaypoint

=============================================================================
